---- MODULE Spec2Model ----
(***************************************************************************)
(* A model of infra/cifuzz/fuzz_target.py: the FuzzTarget class, its       *)
(* bounded fuzz run, crash extraction, crash confirmation and corpus       *)
(* download.                                                               *)
(*                                                                         *)
(* Text is modelled character by character: a Python str (or bytes) is a   *)
(* sequence of one-character strings, so that the regular expression of    *)
(* get_test_case and the path functions of os.path are computed, not       *)
(* assumed.  A byte outside ASCII is written by its name ("0xC3").         *)
(***************************************************************************)
EXTENDS Integers, Sequences, FiniteSets, TLC

VARIABLES
  \* the FuzzTarget object's attributes
  target_name, duration, target_path, out_dir, project_name, corpus_dir,
  \* the environment: filesystem, network, child process
  out_dir_exists, corpus_fs, fetches, proc,
  \* the fuzz() invocation in progress or last finished
  pc, fuzz_calls, launches, command, timed_out, err_str, test_case, extracted,
  confirm, fuzz_result,
  \* the is_reproducible() invocation in progress or last finished
  rep_caller, rep_arg, rep_command, trial_codes, rep_result, rep_direct_calls,
  \* the last download_latest_corpus() invocation
  dl_calls, dl_outcome, dl_before, dl_successes, dl_result,
  \* the last direct get_test_case() invocation
  gtc_text, gtc_result

objvars == <<target_name, duration, target_path, out_dir, project_name, corpus_dir>>
envvars == <<out_dir_exists, corpus_fs, fetches, proc>>
fuzzvars == <<pc, fuzz_calls, launches, command, timed_out, err_str, test_case,
              extracted, confirm, fuzz_result>>
repvars == <<rep_caller, rep_arg, rep_command, trial_codes, rep_result, rep_direct_calls>>
dlvars == <<dl_calls, dl_outcome, dl_before, dl_successes, dl_result>>
gtcvars == <<gtc_text, gtc_result>>
vars == <<objvars, envvars, fuzzvars, repvars, dlvars, gtcvars>>

----------------------------------------------------------------------------
(* Bounds of the model. *)

\* Longest diagnostic text of the extraction specification, in segments.
MaxSegs == 3
\* fuzz() invocations on one object.
MaxFuzzCalls == 2
\* download_latest_corpus() invocations on one object.
MaxDownloads == 2
\* Direct is_reproducible() invocations on one object.
MaxDirectRep == 1

----------------------------------------------------------------------------
(* Python values. *)

\* Python's None, and an attribute that was never assigned.  Both are kept
\* apart from every str: no str holds a multi-character element.
None == <<"<None>">>
Unset == <<"<unset>">>

\* Truthiness of an optional str: None and '' are false.
Truthy(v) == v # None /\ v # <<>>

RECURSIVE Flatten(_)
\* ''.join(parts)
Flatten(parts) ==
  IF parts = <<>> THEN <<>> ELSE Head(parts) \o Flatten(Tail(parts))

WordChars ==
  {"a","b","c","d","e","f","g","h","i","j","k","l","m","n","o","p","q","r",
   "s","t","u","v","w","x","y","z",
   "A","B","C","D","E","F","G","H","I","J","K","L","M","N","O","P","Q","R",
   "S","T","U","V","W","X","Y","Z",
   "0","1","2","3","4","5","6","7","8","9","_"}

\* \s of a str pattern: the whitespace characters the texts of the model
\* can hold (Python's \s also takes \v and the separators 0x1c-0x1f).
SpaceChars == {" ", "\t", "\n", "\r", "\f"}

\* Bytes that bytes.decode('ascii') rejects.
NonAsciiBytes == {"0xC3", "0xFF"}

IsWord(c) == c \in WordChars
IsSpace(c) == c \in SpaceChars

----------------------------------------------------------------------------
(* os.path (posixpath). *)

\* str.startswith('/')
IsAbs(p) == Len(p) > 0 /\ p[1] = "/"

\* os.path.join(a, b)
OsPathJoin(a, b) ==
  IF IsAbs(b) THEN b
  ELSE IF a = <<>> \/ a[Len(a)] = "/" THEN a \o b
  ELSE a \o <<"/">> \o b

\* str.rfind('/') + 1
LastSlash(p) ==
  LET S == {i \in 1..Len(p) : p[i] = "/"}
  IN IF S = {} THEN 0 ELSE CHOOSE i \in S : \A j \in S : j <= i

\* os.path.basename(p)
Basename(p) == SubSeq(p, LastSlash(p) + 1, Len(p))

RECURSIVE RStripSlash(_)
\* str.rstrip('/')
RStripSlash(p) ==
  IF p # <<>> /\ p[Len(p)] = "/" THEN RStripSlash(SubSeq(p, 1, Len(p) - 1)) ELSE p

\* os.path.dirname(p)
Dirname(p) ==
  LET head == SubSeq(p, 1, LastSlash(p))
  IN IF head # <<>> /\ \E i \in 1..Len(head) : head[i] # "/"
     THEN RStripSlash(head) ELSE head

----------------------------------------------------------------------------
(* get_test_case: re.search(r'\bTest unit written to \.\/([^\s]+)', s). *)

Marker ==
  <<"T","e","s","t"," ","u","n","i","t"," ","w","r","i","t","t","e","n"," ",
    "t","o"," ",".","/">>

\* Mutant of WordBoundaryAt: the pattern without its \b.
WordBoundaryIgnored(s, i) == TRUE

\* \b before the pattern's first character, a word character: the position
\* is the start of the text or follows a non-word character.
WordBoundaryAt(s, i) == i = 1 \/ ~IsWord(s[i - 1])

\* The literal part of the pattern matches s at position i.
LiteralAt(s, i) ==
  /\ i + Len(Marker) - 1 <= Len(s)
  /\ \A k \in 1..Len(Marker) : s[i + k - 1] = Marker[k]

RECURSIVE NonSpaceRun(_, _)
\* ([^\s]+), greedy: the longest run of non-whitespace from position j
\* (empty when there is none, and then the pattern does not match there).
NonSpaceRun(s, j) ==
  IF j > Len(s) \/ IsSpace(s[j]) THEN <<>>
  ELSE <<s[j]>> \o NonSpaceRun(s, j + 1)

\* The whole pattern matches s at position i.
MatchAt(s, i) ==
  /\ WordBoundaryAt(s, i)
  /\ LiteralAt(s, i)
  /\ NonSpaceRun(s, i + Len(Marker)) # <<>>

\* Mutant of ReSearch: of the matches from position i on, the last one is
\* taken.
ReSearchLast(s, i) ==
  LET M == {k \in i..Len(s) : MatchAt(s, k)}
  IN IF M = {} THEN None
     ELSE NonSpaceRun(s, (CHOOSE k \in M : \A m \in M : m <= k) + Len(Marker))

RECURSIVE ReSearch(_, _)
\* re.search scans the positions from the left and takes the first match;
\* the result is group(1), or None.
ReSearch(s, i) ==
  IF i > Len(s) THEN None
  ELSE IF MatchAt(s, i) THEN NonSpaceRun(s, i + Len(Marker))
  ELSE ReSearch(s, i + 1)

\* FuzzTarget.get_test_case(error_string) of an object whose out_dir is od.
GetTestCase(od, error_string) ==
  LET match == ReSearch(error_string, 1)
  IN IF match # None THEN OsPathJoin(od, match) ELSE None

----------------------------------------------------------------------------
(* Module constants and the inputs the model draws from. *)

\* The number of reproduce attempts for a crash.
REPRODUCE_ATTEMPTS == 10

LIBFUZZER_OPTIONS ==
  <<"-","s","e","e","d","=","1","3","3","7"," ","-","l","e","n","_","c","o","n","t","r","o","l","=","0">>

RunFuzzerWord == <<"r","u","n","_","f","u","z","z","e","r">>
CorpusWord == <<"c","o","r","p","u","s">>

\* Constructor arguments: (target_path, out_dir), and the rest.
TargetAndOutDirs ==
  {<<<<"/","o","u","t","/","f","z">>, <<"/","o","u","t">>>>,
   <<<<"f","z">>, <<"o","u","t","/">>>>}
ProjectNames == {None, <<"p","j">>}
Durations == {60}

\* utils.get_container_name(): None, or the name of the running container.
ContainerNames == {None, <<"c","1">>}

\* Exit codes of a reproduce trial: clean, the target crashed, docker failed.
ExitCodes == {0, 1, 125}
\* Of these, what `docker run` itself exits with when the daemon cannot be
\* reached or rejects the invocation; the fuzzer never got to run.
SandboxFailureCodes == {125}

\* Entries of a corpus archive and their contents.
EntryNames == {"seed1", "seed2"}
Contents == {"old", "new"}
\* An archive gives each entry name its content, or Absent for an entry it
\* does not hold; a directory listing likewise.
Absent == "-"
ArchiveOld == [n \in EntryNames |-> "old"]
ArchiveNew == [n \in EntryNames |-> IF n = "seed1" THEN "new" ELSE Absent]
Archives == {ArchiveOld, ArchiveNew}
NoFiles == [n \in EntryNames |-> Absent]

\* Outcomes of urlopen + ZipFile of download_latest_corpus.
FetchOutcomes == {"ok", "HTTPError", "URLError", "BadZipFile"}

\* stderr of a fuzz run that ended before the deadline.
TextNoCrash == <<"o","k">> \o <<"\n">>
TextCrash == <<"x", " ">> \o Marker \o <<"c","-","1">> \o <<"\n", "E">>
TextGlued == <<"x">> \o Marker \o <<"c","-","1">>
TextBadByte == Marker \o <<"c","-","1">> \o <<"\n", "0xC3">>
FuzzTexts == {TextNoCrash, TextCrash, TextGlued, TextBadByte}

\* Test cases a caller hands to is_reproducible directly.
DirectTestCases == {<<"/","o","u","t","/","c","-","1">>, <<"c","2">>}

\* Pieces of the diagnostic texts handed to get_test_case directly: the
\* marker, the marker in lower case, a word character, a blank, a character
\* that is neither, a file name, a slash and a parent directory.
Segments ==
  {Marker,
   <<"t">> \o Tail(Marker),
   <<"x">>, <<" ">>, <<"-">>, <<"c","1">>, <<"/">>, <<".",".">>}
SegLists == UNION {[1..n -> Segments] : n \in 0..MaxSegs}
Texts == {Flatten(l) : l \in SegLists}

\* Texts in which the marker stands twice: what precedes the first marker,
\* the characters after it, what separates them from the second marker, the
\* characters after that one, and the rest.
TwoMarkerTexts ==
  {Flatten(<<pre, Marker, p1, sep, Marker, p2, post>>) :
     pre \in {<<>>, <<"x">>, <<"-", " ">>},
     p1 \in {<<>>, <<"c","1">>, <<"/","c","1">>},
     sep \in {<<>>, <<" ">>, <<"\n">>, <<"x">>},
     p2 \in {<<>>, <<"c","2">>},
     post \in {<<>>, <<" ", "x">>}}

\* Output directories of the objects get_test_case is called on.
ExtractOutDirs == {<<"/","o","u","t">>, <<"o","u","t","/">>, <<>>}

----------------------------------------------------------------------------
(* Results of the invocations. *)

\* A method returned value v from the statement at line ln.
Returned(v, ln) == [kind |-> "return", value |-> v, exc |-> "", line |-> ln]
\* A method raised exception e from the statement at line ln.
Raised(e, ln) == [kind |-> "raise", value |-> None, exc |-> e, line |-> ln]
\* No invocation yet, or one in progress.
NoResult == [kind |-> "none", value |-> None, exc |-> "", line |-> 0]

\* fuzz() returned the pair (tc, es) from the statement at line ln.
FuzzReturned(tc, es, ln) ==
  [kind |-> "return", test_case |-> tc, err_str |-> es, exc |-> "", line |-> ln]
\* fuzz() raised exception e from the statement at line ln.
FuzzRaised(e, ln) ==
  [kind |-> "raise", test_case |-> None, err_str |-> None, exc |-> e, line |-> ln]
\* No fuzz() invocation yet, or one in progress.
FuzzNoResult ==
  [kind |-> "none", test_case |-> None, err_str |-> None, exc |-> "", line |-> 0]

\* What fuzz() has seen of is_reproducible: whether it called it, on which
\* test case, what it returned and after how many trials.
NoConfirm == [called |-> FALSE, arg |-> None, result |-> "none", trials |-> 0]

\* No sandbox command was built.
NoCommand == [mount |-> <<>>, run_fuzzer |-> <<>>]
NoRepCommand == [out_mount |-> <<>>, testcase_mount |-> <<>>, target |-> <<>>]

\* The filesystem below <out_dir>/corpus/<target_name>.
NoDir == [exists |-> FALSE, files |-> NoFiles]

----------------------------------------------------------------------------
(* FuzzTarget.__init__ *)

Init ==
  /\ \E c \in TargetAndOutDirs : target_path = c[1] /\ out_dir = c[2]
  /\ target_name = Basename(target_path)
  /\ duration \in Durations
  /\ project_name \in ProjectNames
  \* __init__ assigns no corpus_dir attribute.
  /\ corpus_dir = Unset
  /\ out_dir_exists \in BOOLEAN
  /\ corpus_fs = NoDir
  /\ fetches = 0
  /\ proc = "none"
  /\ pc = "idle"
  /\ fuzz_calls = 0
  /\ launches = 0
  /\ command = NoCommand
  /\ err_str = None
  /\ test_case = None
  /\ extracted = FALSE
  /\ timed_out = FALSE
  /\ confirm = NoConfirm
  /\ fuzz_result = FuzzNoResult
  /\ rep_caller = "none"
  /\ rep_arg = None
  /\ rep_command = NoRepCommand
  /\ trial_codes = <<>>
  /\ rep_result = "none"
  /\ rep_direct_calls = 0
  /\ dl_calls = 0
  /\ dl_outcome = "none"
  /\ dl_before = NoDir
  /\ dl_successes = <<>>
  /\ dl_result = NoResult
  /\ gtc_text = None
  /\ gtc_result = None

----------------------------------------------------------------------------
(* FuzzTarget.download_latest_corpus *)

\* os.path.join(self.out_dir, 'corpus', self.target_name)
CorpusDirPath == OsPathJoin(OsPathJoin(out_dir, CorpusWord), target_name)

\* Mutant of ExtractAll: the directory is emptied before the extraction.
ExtractAllFresh(files, archive) == archive

\* zf.extractall(corpus_dir) into a directory that holds `files`: every entry
\* of the archive is written, over a file of the same name if there is one;
\* nothing is removed.
ExtractAll(files, archive) ==
  [n \in EntryNames |-> IF archive[n] # Absent THEN archive[n] ELSE files[n]]

\* The except clause of the try block: the exceptions it catches.
CaughtOnFetch(outcome) == outcome = "HTTPError"

\* Mutant of PathExists: the directory is taken to be there.
PathExistsAssumed(there) == TRUE

\* os.path.exists(self.out_dir), for a directory that is there or not.
PathExists(there) == there

\* Mutant of FilesAfterFailedFetch: what the server holds reaches the
\* directory although the fetch failed.
FilesAfterFailedFetchExtracted(files, archive) ==
  [n \in EntryNames |-> IF archive[n] # Absent THEN archive[n] ELSE files[n]]

\* The files of the corpus directory after a try block that raised in
\* urlopen or in ZipFile: extractall was not reached.
FilesAfterFailedFetch(files, archive) == files

\* One whole invocation.  `outcome` is what urlopen and ZipFile do, `archive`
\* the zip the server holds.
DownloadLatestCorpus(outcome, archive) ==
  /\ pc = "idle"
  /\ dl_calls < MaxDownloads
  /\ dl_calls' = dl_calls + 1
  /\ dl_before' = corpus_fs
  /\ IF ~Truthy(project_name) THEN
       /\ dl_result' = Returned(None, 143)
       /\ dl_outcome' = "none"
       /\ UNCHANGED <<corpus_fs, fetches, dl_successes>>
     ELSE IF ~PathExists(out_dir_exists) THEN
       /\ dl_result' = Returned(None, 146)
       /\ dl_outcome' = "none"
       /\ UNCHANGED <<corpus_fs, fetches, dl_successes>>
     ELSE
       \* os.makedirs(corpus_dir, exist_ok=True), then urlopen
       /\ dl_outcome' = outcome
       /\ fetches' = fetches + 1
       /\ IF outcome = "ok" THEN
            /\ corpus_fs' = [exists |-> TRUE, files |-> ExtractAll(corpus_fs.files, archive)]
            /\ dl_successes' = Append(dl_successes, archive)
            /\ dl_result' = Returned(CorpusDirPath, 161)
          ELSE
            /\ corpus_fs' = [exists |-> TRUE,
                             files |-> FilesAfterFailedFetch(corpus_fs.files, archive)]
            /\ UNCHANGED dl_successes
            /\ dl_result' = IF CaughtOnFetch(outcome) THEN Returned(None, 159)
                            ELSE Raised(outcome, IF outcome = "URLError" THEN 154 ELSE 155)
  /\ UNCHANGED <<objvars, out_dir_exists, proc, fuzzvars, repvars, gtcvars>>

\* The caller keeps what download_latest_corpus returned in the attribute
\* fuzz() reads: target.corpus_dir = target.download_latest_corpus().
SetCorpusDir ==
  /\ pc = "idle"
  /\ dl_result.kind = "return"
  /\ corpus_dir # dl_result.value
  /\ corpus_dir' = dl_result.value
  /\ UNCHANGED <<target_name, duration, target_path, out_dir, project_name,
                 envvars, fuzzvars, repvars, dlvars, gtcvars>>

----------------------------------------------------------------------------
(* FuzzTarget.fuzz *)

\* How the output directory reaches the sandbox.
MountArgs(docker_container) ==
  IF Truthy(docker_container)
  THEN <<<<"-","-","v","o","l","u","m","e","s","-","f","r","o","m">>, docker_container, <<"-","e">>,
         <<"O","U","T","=">> \o out_dir>>
  ELSE <<<<"-","v">>, out_dir \o <<":","/","o","u","t">>>>

\* 'run_fuzzer {fuzz_target} {options}', and the corpus directory after it
\* when the attribute holds one.
RunFuzzerCommand(cdir) ==
  LET base == RunFuzzerWord \o <<" ">> \o target_name \o <<" ">> \o LIBFUZZER_OPTIONS
  IN IF Truthy(cdir) THEN base \o <<" ">> \o cdir ELSE base

\* Keyword arguments Logger._log takes; logging.error passes its own on.
LogKwargs == {"exc_info", "extra", "stack_info", "stacklevel"}
\* logging.error(msg, **kwargs) raises TypeError on any other keyword.
LoggingErrorRaises(kwargs) == kwargs \ LogKwargs # {}
\* The keywords of the call that reports a missing test case.
NoTestCaseLogKwargs == {"file"}

\* err.decode('ascii') raises UnicodeDecodeError on a byte above 127.
DecodeRaises(err) == \E i \in 1..Len(err) : err[i] \in NonAsciiBytes

\* What communicate() leaves of the child when its timeout expires: the
\* handler of TimeoutExpired returns and does nothing to the process.
ProcAfterTimeout(p) == p

\* Mutant of AfterTimeout: the handler only logs, and fuzz() goes on to
\* extraction with nothing captured.
AfterTimeoutFallsThrough ==
  [result |-> FuzzReturned(None, None, 109), extracted |-> TRUE]

\* The handler of TimeoutExpired: fuzz() returns from it, and the statements
\* after the try block (decode, get_test_case) do not run.
AfterTimeout == [result |-> FuzzReturned(None, None, 102), extracted |-> FALSE]

\* The command of one reproduce trial.
ReproduceCommand(tc) ==
  [out_mount |-> Dirname(target_path) \o <<":","/","o","u","t">>,
   testcase_mount |-> tc \o <<":","/","t","e","s","t","c","a","s","e">>,
   target |-> target_name]

\* From the call to Popen: the command is built and the sandbox launched.
FuzzBegin(docker_container, docker_ok) ==
  /\ pc = "idle"
  /\ fuzz_calls < MaxFuzzCalls
  /\ fuzz_calls' = fuzz_calls + 1
  /\ err_str' = None
  /\ test_case' = None
  /\ extracted' = FALSE
  /\ timed_out' = FALSE
  /\ confirm' = NoConfirm
  /\ rep_caller' = "none"
  /\ rep_arg' = None
  /\ rep_command' = NoRepCommand
  /\ trial_codes' = <<>>
  /\ rep_result' = "none"
  /\ IF corpus_dir = Unset THEN
       \* self.corpus_dir: no such attribute
       /\ fuzz_result' = FuzzRaised("AttributeError", 89)
       /\ launches' = 0
       /\ command' = NoCommand
       /\ UNCHANGED <<pc, proc>>
     ELSE IF ~docker_ok THEN
       \* Popen: the docker executable cannot be started
       /\ fuzz_result' = FuzzRaised("OSError", 94)
       /\ launches' = 0
       /\ command' = [mount |-> MountArgs(docker_container),
                      run_fuzzer |-> RunFuzzerCommand(corpus_dir)]
       /\ UNCHANGED <<pc, proc>>
     ELSE
       /\ fuzz_result' = FuzzNoResult
       /\ launches' = 1
       /\ command' = [mount |-> MountArgs(docker_container),
                      run_fuzzer |-> RunFuzzerCommand(corpus_dir)]
       /\ proc' = "running"
       /\ pc' = "communicate"
  /\ UNCHANGED <<objvars, out_dir_exists, corpus_fs, fetches, rep_direct_calls,
                 dlvars, gtcvars>>

\* Mutant of CommunicateTimeout: the handler writes the budget it used up
\* back into self.duration.
CommunicateTimeoutSpendsDuration ==
  /\ pc = "communicate"
  /\ proc = "running"
  /\ proc' = ProcAfterTimeout(proc)
  /\ timed_out' = TRUE
  /\ fuzz_result' = AfterTimeout.result
  /\ extracted' = AfterTimeout.extracted
  /\ pc' = "idle"
  /\ duration' = 0
  /\ UNCHANGED <<target_name, target_path, out_dir, project_name, corpus_dir,
                 out_dir_exists, corpus_fs, fetches, fuzz_calls, launches,
                 command, err_str, test_case, confirm, repvars, dlvars, gtcvars>>

\* communicate(timeout=self.duration): the deadline passes first.
CommunicateTimeout ==
  /\ pc = "communicate"
  /\ proc = "running"
  /\ proc' = ProcAfterTimeout(proc)
  /\ timed_out' = TRUE
  /\ fuzz_result' = AfterTimeout.result
  /\ extracted' = AfterTimeout.extracted
  /\ pc' = "idle"
  /\ UNCHANGED <<objvars, out_dir_exists, corpus_fs, fetches, fuzz_calls, launches,
                 command, err_str, test_case, confirm, repvars, dlvars, gtcvars>>

\* communicate(timeout=self.duration): the process ends first, with `err`
\* on its stderr; then decode, get_test_case, and the call of is_reproducible.
ProcessExits(err) ==
  /\ pc = "communicate"
  /\ proc = "running"
  /\ proc' = "exited"
  /\ IF DecodeRaises(err) THEN
       /\ fuzz_result' = FuzzRaised("UnicodeDecodeError", 105)
       /\ pc' = "idle"
       /\ UNCHANGED <<err_str, test_case, extracted, confirm, repvars>>
     ELSE
       /\ err_str' = err
       /\ extracted' = TRUE
       /\ test_case' = GetTestCase(out_dir, err)
       /\ IF ~Truthy(test_case') THEN
            /\ fuzz_result' = IF LoggingErrorRaises(NoTestCaseLogKwargs)
                              THEN FuzzRaised("TypeError", 108)
                              ELSE FuzzReturned(None, None, 109)
            /\ pc' = "idle"
            /\ UNCHANGED <<confirm, repvars>>
          ELSE
            /\ fuzz_result' = FuzzNoResult
            /\ pc' = "reproduce"
            /\ rep_caller' = "fuzz"
            /\ rep_arg' = test_case'
            /\ confirm' = [NoConfirm EXCEPT !.called = TRUE, !.arg = test_case']
            /\ rep_command' = ReproduceCommand(test_case')
            /\ trial_codes' = <<>>
            /\ rep_result' = "pending"
            /\ UNCHANGED rep_direct_calls
  /\ UNCHANGED <<objvars, out_dir_exists, corpus_fs, fetches, fuzz_calls, launches,
                 command, timed_out, dlvars, gtcvars>>

\* A child the timeout left behind ends by itself.
OrphanExits ==
  /\ pc # "communicate"
  /\ proc = "running"
  /\ proc' = "exited"
  /\ UNCHANGED <<objvars, out_dir_exists, corpus_fs, fetches, fuzzvars, repvars,
                 dlvars, gtcvars>>

----------------------------------------------------------------------------
(* FuzzTarget.is_reproducible *)

\* if err_code:
TrialReproduces(err_code) == err_code # 0

\* Mutant of MoreTrials: one pass too many.
MoreTrialsOffByOne(n) == n <= REPRODUCE_ATTEMPTS

\* for _ in range(REPRODUCE_ATTEMPTS): another trial follows n finished ones.
MoreTrials(n) == n < REPRODUCE_ATTEMPTS

\* Mutant of FuzzAfterReproduce: the verdict is not looked at.
FuzzAfterReproduceAlways(reproducible) == FuzzReturned(test_case, err_str, 111)

\* Mutant of FuzzAfterReproduce: the crash is returned without the captured
\* text.
FuzzAfterReproduceNoTrace(reproducible) ==
  IF reproducible THEN FuzzReturned(test_case, None, 111)
  ELSE FuzzReturned(None, None, 113)

\* Mutant of FuzzAfterReproduce: fuzz() is left without a result.
FuzzAfterReproduceNothing(reproducible) == FuzzNoResult

\* What fuzz() returns once is_reproducible has returned `reproducible`.
FuzzAfterReproduce(reproducible) ==
  IF reproducible THEN FuzzReturned(test_case, err_str, 111)
  ELSE FuzzReturned(None, None, 113)

\* A caller other than fuzz() asks whether tc reproduces.
IsReproducibleBegin(tc) ==
  /\ pc = "idle"
  /\ rep_direct_calls < MaxDirectRep
  /\ rep_direct_calls' = rep_direct_calls + 1
  /\ pc' = "reproduce"
  /\ rep_caller' = "direct"
  /\ rep_arg' = tc
  /\ rep_command' = ReproduceCommand(tc)
  /\ trial_codes' = <<>>
  /\ rep_result' = "pending"
  /\ UNCHANGED <<objvars, envvars, fuzz_calls, launches, command, timed_out, err_str,
                 test_case, extracted, confirm, fuzz_result, dlvars, gtcvars>>

\* One pass of the loop: utils.execute(command) runs a trial to its end and
\* gives its exit code.
Trial(err_code) ==
  /\ pc = "reproduce"
  /\ MoreTrials(Len(trial_codes))
  /\ trial_codes' = Append(trial_codes, err_code)
  /\ LET done == TrialReproduces(err_code) \/ ~MoreTrials(Len(trial_codes'))
     IN /\ rep_result' = IF TrialReproduces(err_code) THEN "True"
                         ELSE IF done THEN "False" ELSE "pending"
        /\ pc' = IF done THEN "idle" ELSE "reproduce"
        /\ fuzz_result' = IF done /\ rep_caller = "fuzz"
                          THEN FuzzAfterReproduce(TrialReproduces(err_code))
                          ELSE fuzz_result
        /\ confirm' = IF rep_caller = "fuzz"
                      THEN [confirm EXCEPT !.result = rep_result',
                                           !.trials = Len(trial_codes')]
                      ELSE confirm
  /\ UNCHANGED <<objvars, envvars, fuzz_calls, launches, command, timed_out, err_str,
                 test_case, extracted, rep_caller, rep_arg, rep_command,
                 rep_direct_calls, dlvars, gtcvars>>

----------------------------------------------------------------------------
(* The specification of an object's life. *)

Next ==
  \/ \E o \in FetchOutcomes, a \in Archives : DownloadLatestCorpus(o, a)
  \/ SetCorpusDir
  \/ \E c \in ContainerNames, ok \in BOOLEAN : FuzzBegin(c, ok)
  \/ CommunicateTimeout
  \/ \E e \in FuzzTexts : ProcessExits(e)
  \/ OrphanExits
  \/ \E code \in ExitCodes : Trial(code)

Spec == Init /\ [][Next]_vars

\* The same life when what fuzz() waits for does come: communicate() ends,
\* by the exit of the process or by the timeout of self.duration seconds,
\* and utils.execute returns from every trial it runs.
Fairness ==
  /\ WF_vars(CommunicateTimeout \/ \E e \in FuzzTexts : ProcessExits(e))
  /\ WF_vars(\E code \in ExitCodes : Trial(code))

FairSpec == Init /\ [][Next]_vars /\ Fairness

----------------------------------------------------------------------------
(* is_reproducible called on its own, as its unit tests do. *)

NextReproduce ==
  \/ \E tc \in DirectTestCases : IsReproducibleBegin(tc)
  \/ \E code \in ExitCodes : Trial(code)

SpecReproduce == Init /\ [][NextReproduce]_vars

----------------------------------------------------------------------------
(* get_test_case called on its own, on objects of several out_dir. *)

GetTestCaseCall(error_string) ==
  /\ gtc_text = None
  /\ gtc_text' = error_string
  /\ gtc_result' = GetTestCase(out_dir, error_string)
  /\ UNCHANGED <<objvars, envvars, fuzzvars, repvars, dlvars>>

InitExtract ==
  /\ target_path = <<"/","o","u","t","/","f","z">>
  /\ target_name = Basename(target_path)
  /\ duration \in Durations
  /\ out_dir \in ExtractOutDirs
  /\ project_name = None
  /\ corpus_dir = Unset
  /\ out_dir_exists = TRUE
  /\ corpus_fs = NoDir
  /\ fetches = 0
  /\ proc = "none"
  /\ pc = "idle"
  /\ fuzz_calls = 0
  /\ launches = 0
  /\ command = NoCommand
  /\ err_str = None
  /\ test_case = None
  /\ extracted = FALSE
  /\ timed_out = FALSE
  /\ confirm = NoConfirm
  /\ fuzz_result = FuzzNoResult
  /\ rep_caller = "none"
  /\ rep_arg = None
  /\ rep_command = NoRepCommand
  /\ trial_codes = <<>>
  /\ rep_result = "none"
  /\ rep_direct_calls = 0
  /\ dl_calls = 0
  /\ dl_outcome = "none"
  /\ dl_before = NoDir
  /\ dl_successes = <<>>
  /\ dl_result = NoResult
  /\ gtc_text = None
  /\ gtc_result = None

NextExtract == \E t \in Texts : GetTestCaseCall(t)

SpecExtract == InitExtract /\ [][NextExtract]_vars

\* get_test_case on texts that hold the marker twice.
NextExtractMany == \E t \in TwoMarkerTexts : GetTestCaseCall(t)

SpecExtractMany == InitExtract /\ [][NextExtractMany]_vars

----------------------------------------------------------------------------
(* The claims. *)

\* The literal marker stands in s at position i.
MarkerOccursAt(s, i) ==
  i + Len(Marker) - 1 <= Len(s) /\ SubSeq(s, i, i + Len(Marker) - 1) = Marker

\* The text holds the literal marker somewhere.
ContainsMarker(s) == \E i \in 1..Len(s) : MarkerOccursAt(s, i)

\* The run of non-whitespace characters that follows the marker standing at
\* i, up to the next whitespace or the end of the text.
PathAfter(s, i) ==
  LET j == i + Len(Marker)
      k == CHOOSE k \in j..Len(s) :
             /\ \A m \in j..k : s[m] \notin SpaceChars
             /\ k = Len(s) \/ s[k + 1] \in SpaceChars
  IN SubSeq(s, j, k)

\* The marker stands at i and a non-whitespace character follows it.
MarkerWithPathAt(s, i) ==
  /\ MarkerOccursAt(s, i)
  /\ i + Len(Marker) <= Len(s)
  /\ s[i + Len(Marker)] \notin SpaceChars

\* The join of a directory and a path, case by case.
JoinedPath(dir, path) ==
  CASE path[1] = "/" -> path
    [] path[1] # "/" /\ dir = <<>> -> path
    [] path[1] # "/" /\ dir # <<>> /\ dir[Len(dir)] = "/" -> dir \o path
    [] OTHER -> dir \o <<"/">> \o path

\* fuzz() returned the null result (None, None).
FuzzReturnedNull ==
  /\ fuzz_result.kind = "return"
  /\ fuzz_result.test_case = None
  /\ fuzz_result.err_str = None

\* The run_fuzzer command without a corpus argument.
RunFuzzerBase ==
  RunFuzzerWord \o <<" ">> \o target_name \o <<" ">> \o LIBFUZZER_OPTIONS

\* C1: fuzz() returns a non-null result only if, in the same invocation,
\* is_reproducible ran on that test case and returned True; when all
\* confirmation trials fail to reproduce, fuzz() returns (None, None).
C1_ReportedOnlyIfConfirmed ==
  /\ (fuzz_result.kind = "return" /\ ~FuzzReturnedNull) =>
       /\ confirm.called
       /\ confirm.result = "True"
       /\ confirm.arg = fuzz_result.test_case
       /\ fuzz_result.test_case # None
  /\ (confirm.called /\ confirm.result = "False") =>
       /\ pc = "idle"
       /\ FuzzReturnedNull

\* C1 witness: a crash is reported, confirmed by a trial that followed a
\* trial that did not reproduce.
C1_Witness ==
  /\ fuzz_result.kind = "return"
  /\ fuzz_result.test_case # None
  /\ confirm.trials >= 2

\* C2: is_reproducible launches trials one at a time; it returns True at the
\* first trial whose exit code is nonzero and launches none after it; after
\* 10 trials that all exit with zero it returns False; never more than 10.
C2_TrialsShortCircuit ==
  LET n == Len(trial_codes)
      AllZero == \A i \in 1..n : trial_codes[i] = 0
  IN /\ n <= 10
     /\ \A i \in 1..(n - 1) : trial_codes[i] = 0
     /\ rep_result = "True" <=> (n >= 1 /\ trial_codes[n] # 0)
     /\ rep_result = "False" <=> (n = 10 /\ AllZero)
     /\ rep_result = "pending" <=> pc = "reproduce"
     /\ pc = "reproduce" => (n < 10 /\ AllZero)

\* C2 witness: the trials [0, 0, nonzero] end the call with True after the
\* third.
C2_Witness ==
  /\ rep_result = "True"
  /\ Len(trial_codes) = 3
  /\ pc = "idle"

\* C3: when the process is still running at the deadline, fuzz() returns
\* (None, None), and neither get_test_case nor any confirmation trial ran in
\* that invocation; the run is not reported as "no crash after early exit"
\* nor as a crash.
C3_TimeoutIsNoCrash ==
  timed_out =>
    /\ pc = "idle"
    /\ FuzzReturnedNull
    /\ ~extracted
    /\ test_case = None
    /\ ~confirm.called
    /\ confirm.trials = 0
    /\ trial_codes = <<>>
    /\ fuzz_result.line \notin {109, 111, 113}

\* C3 witness: a run that hit its deadline has returned.
C3_Witness == timed_out /\ pc = "idle" /\ launches = 1

\* C4: after fuzz() has returned from a timed-out run, the child process it
\* launched is no longer running.
C4_ChildTerminated == (timed_out /\ pc = "idle") => proc # "running"

\* C5: when the process exits before the deadline and its text holds no
\* marker, fuzz() returns (None, None): it raises nothing and runs no trial.
C5_NoMarkerIsNullResult ==
  (pc = "idle" /\ extracted /\ err_str # None /\ ~ContainsMarker(err_str)) =>
    /\ FuzzReturnedNull
    /\ ~confirm.called

\* C6: on every transport error of the fetch, download_latest_corpus returns
\* None and raises nothing.
C6_TransportErrorIsSoft ==
  dl_outcome \in {"HTTPError", "URLError"} =>
    (dl_result.kind = "return" /\ dl_result.value = None)

\* C7 as claimed: after a success with archive A and then a success with
\* archive B, the corpus directory holds exactly the entries of B.
C7_OnlyLatestEntries ==
  (Len(dl_successes) >= 2 /\ dl_outcome = "ok") =>
    corpus_fs.files = dl_successes[Len(dl_successes)]

\* C7 as amended: after a success with archive B, every entry of B is in the
\* corpus directory with B's content, and every other entry the directory
\* held before the call is still there, unchanged.
C7_OverwritesSameNamesKeepsRest ==
  dl_outcome = "ok" =>
    LET B == dl_successes[Len(dl_successes)]
    IN /\ corpus_fs.exists
       /\ \A n \in EntryNames :
            /\ B[n] # Absent => corpus_fs.files[n] = B[n]
            /\ B[n] = Absent => corpus_fs.files[n] = dl_before.files[n]

\* C7 witness: of two successes, the second overwrote an entry of the first
\* and left in place an entry it does not hold.
C7_Witness ==
  /\ Len(dl_successes) = 2
  /\ dl_outcome = "ok"
  /\ \E n \in EntryNames :
       /\ dl_successes[2][n] = Absent
       /\ dl_successes[1][n] # Absent
       /\ corpus_fs.files[n] = dl_successes[1][n]
  /\ \E m \in EntryNames :
       /\ dl_successes[2][m] # Absent
       /\ dl_successes[1][m] \notin {Absent, dl_successes[2][m]}
       /\ corpus_fs.files[m] = dl_successes[2][m]

\* C8 as claimed: for a text that holds the marker followed by a path,
\* get_test_case returns the join of out_dir and that path; for a text
\* without the marker it returns None.
C8_AnyMarkerIsFound ==
  gtc_text # None =>
    /\ (\E i \in 1..Len(gtc_text) : MarkerWithPathAt(gtc_text, i)) =>
         \E i \in 1..Len(gtc_text) :
           /\ MarkerWithPathAt(gtc_text, i)
           /\ gtc_result = JoinedPath(out_dir, PathAfter(gtc_text, i))
    /\ ~ContainsMarker(gtc_text) => gtc_result = None

\* C8 as amended: get_test_case looks for the first marker that stands at
\* the start of the text or after a non-word character and is followed by a
\* non-whitespace character; it returns the join of out_dir and the path
\* after that marker, and None when there is no such marker.
C8_FirstMarkerAtWordBoundary ==
  gtc_text # None =>
    LET s == gtc_text
        Occ == {i \in 1..Len(s) :
                  MarkerWithPathAt(s, i) /\ (i = 1 \/ s[i - 1] \notin WordChars)}
    IN IF Occ = {} THEN gtc_result = None
       ELSE LET first == CHOOSE i \in Occ : \A j \in Occ : i <= j
            IN gtc_result = JoinedPath(out_dir, PathAfter(s, first))

\* C8 witness: a marker after a non-word character is found and its path
\* joined to a non-empty out_dir.
C8_Witness ==
  /\ gtc_text # None
  /\ gtc_result # None
  /\ out_dir # <<>>
  /\ ~MarkerOccursAt(gtc_text, 1)
  /\ Len(gtc_result) > Len(out_dir)

\* C9: fuzz() on a freshly constructed object without a project name makes
\* no fetch, launches the sandbox once without a corpus argument, and ends
\* in the timed-out/no-crash outcome or in a confirmed crash.
C9_FreshObjectRuns ==
  (/\ project_name = None
   /\ dl_calls = 0
   /\ corpus_dir = Unset
   /\ fuzz_calls = 1
   /\ pc = "idle") =>
    /\ fetches = 0
    /\ launches = 1
    /\ command.run_fuzzer = RunFuzzerBase
    /\ fuzz_result.kind = "return"

\* C10: a fuzz() that follows a download_latest_corpus that returned the
\* corpus directory has that directory as the extra argument of its
\* run_fuzzer command; one that follows a failed or skipped download has a
\* run_fuzzer command without a corpus argument.
C10_DownloadedCorpusIsPassed ==
  [][(fuzz_calls' = fuzz_calls + 1 /\ dl_result.kind = "return") =>
       command'.run_fuzzer =
         IF dl_result.value # None
         THEN RunFuzzerBase \o <<" ">> \o dl_result.value
         ELSE RunFuzzerBase]_vars

\* C11: one fuzz() launches the bounded run at most once and never again in
\* the same invocation; with its at most 10 confirmation trials that makes
\* at most 1 + 10 sandbox launches; one download_latest_corpus makes at most
\* one fetch.
C11_RetriesOnlyInConfirmation ==
  /\ [](/\ launches <= 1
        /\ confirm.trials <= REPRODUCE_ATTEMPTS
        /\ launches + confirm.trials <= 1 + REPRODUCE_ATTEMPTS
        /\ confirm.trials > 0 => launches = 1)
  /\ [][fuzz_calls' = fuzz_calls => launches' = launches]_vars
  /\ [][fetches' # fetches =>
          (dl_calls' = dl_calls + 1 /\ fetches' = fetches + 1)]_vars

\* C11 witness: an invocation that used all of its 1 + 10 launches, after a
\* download that fetched once.
C11_Witness ==
  /\ pc = "idle"
  /\ launches = 1
  /\ confirm.trials = REPRODUCE_ATTEMPTS
  /\ confirm.result = "False"
  /\ fetches = 1
  /\ dl_calls = 1

\* C12: a confirmation trial in which the sandbox itself failed does not
\* make is_reproducible return True, and the fuzz() that ran it does not
\* return a crash.
C12_SandboxFailureIsNoCrash ==
  (/\ trial_codes # <<>>
   /\ trial_codes[Len(trial_codes)] \in SandboxFailureCodes) =>
    /\ rep_result # "True"
    /\ ~(fuzz_result.kind = "return" /\ fuzz_result.test_case # None)

\* The path after the first marker of s that stands at a word boundary and
\* is followed by a path; None when s has no such marker.
FirstMarkerPath(s) ==
  LET Occ == {i \in 1..Len(s) :
                MarkerWithPathAt(s, i) /\ (i = 1 \/ s[i - 1] \notin WordChars)}
  IN IF Occ = {} THEN None
     ELSE PathAfter(s, CHOOSE i \in Occ : \A j \in Occ : i <= j)

\* C13: when the process exited before the deadline with the marker in its
\* text and one of the confirmation trials exited nonzero, fuzz() returns
\* the path get_test_case extracted from that text together with the whole
\* captured text.
C13_CrashResultIsPathAndText ==
  (/\ rep_caller = "fuzz"
   /\ \E i \in 1..Len(trial_codes) : trial_codes[i] # 0) =>
    /\ pc = "idle"
    /\ ~timed_out
    /\ err_str \in FuzzTexts
    /\ ContainsMarker(err_str)
    /\ fuzz_result.kind = "return"
    /\ fuzz_result.err_str = err_str
    /\ FirstMarkerPath(err_str) # None
    /\ fuzz_result.test_case = JoinedPath(out_dir, FirstMarkerPath(err_str))

\* C13 witness: the crash was confirmed by the last of the 10 trials and
\* returned with its text.
C13_Witness ==
  /\ rep_caller = "fuzz"
  /\ Len(trial_codes) = REPRODUCE_ATTEMPTS
  /\ trial_codes[REPRODUCE_ATTEMPTS] # 0
  /\ fuzz_result.line = 111
  /\ fuzz_result.err_str = TextCrash

\* The positions of s where the marker stands followed by a path.
PathMarkers(s) == {i \in 1..Len(s) : MarkerWithPathAt(s, i)}

\* The text holds the marker several times, followed by different paths.
SeveralMarkers(s) ==
  \E i, j \in PathMarkers(s) : PathAfter(s, i) # PathAfter(s, j)

\* C14 as claimed: for a text that holds the marker several times with
\* different paths, get_test_case returns the join of out_dir and the path
\* of the first of them in text order.
C14_FirstMarkerWins ==
  (gtc_text # None /\ SeveralMarkers(gtc_text)) =>
    LET Occ == PathMarkers(gtc_text)
        first == CHOOSE i \in Occ : \A j \in Occ : i <= j
    IN gtc_result = JoinedPath(out_dir, PathAfter(gtc_text, first))

\* C14 as amended: of the markers followed by a path, only those at the
\* start of the text or after a non-word character count; get_test_case
\* returns the join of out_dir and the path of the first of these, which is
\* also what it returns for the text cut off after that path, and None when
\* there is none.
C14_FirstBoundaryMarkerWins ==
  (gtc_text # None /\ SeveralMarkers(gtc_text)) =>
    LET s == gtc_text
        Occ == {i \in PathMarkers(s) : i = 1 \/ s[i - 1] \notin WordChars}
    IN IF Occ = {} THEN gtc_result = None
       ELSE LET first == CHOOSE i \in Occ : \A j \in Occ : i <= j
                last == first + Len(Marker) + Len(PathAfter(s, first)) - 1
            IN /\ gtc_result = JoinedPath(out_dir, PathAfter(s, first))
               /\ gtc_result = GetTestCase(out_dir, SubSeq(s, 1, last))

\* C14 witness: two markers at word boundaries with different paths, and
\* the result is the join with the first path, not with the second.
C14_Witness ==
  /\ gtc_text # None
  /\ \E i, j \in PathMarkers(gtc_text) :
       /\ i < j
       /\ i = 1 \/ gtc_text[i - 1] \notin WordChars
       /\ gtc_text[j - 1] \notin WordChars
       /\ PathAfter(gtc_text, i) # PathAfter(gtc_text, j)
       /\ gtc_result = JoinedPath(out_dir, PathAfter(gtc_text, i))
       /\ gtc_result # JoinedPath(out_dir, PathAfter(gtc_text, j))

\* C15: when the object has no project name, or its out_dir does not exist,
\* download_latest_corpus returns None, fetches nothing and leaves the
\* filesystem as it was: no corpus directory is made.
C15_FailedPreconditionTouchesNothing ==
  (/\ dl_calls >= 1
   /\ (project_name \in {None, <<>>} \/ ~out_dir_exists)) =>
    /\ dl_result.kind = "return"
    /\ dl_result.value = None
    /\ dl_result.line \in {143, 146}
    /\ dl_outcome = "none"
    /\ fetches = 0
    /\ corpus_fs = dl_before
    /\ ~corpus_fs.exists

\* C15 witness: an object with a project name whose out_dir is missing has
\* been asked for its corpus.
C15_Witness ==
  /\ dl_calls >= 1
  /\ project_name \notin {None, <<>>}
  /\ ~out_dir_exists
  /\ dl_result.line = 146

\* C16: a download_latest_corpus whose fetch fails with a transport error
\* adds nothing under the corpus directory: its entries are those it held
\* before the call, so a directory that was missing or empty is missing or
\* empty afterwards.
C16_FailedFetchAddsNoEntries ==
  dl_outcome \in {"HTTPError", "URLError"} =>
    /\ corpus_fs.files = dl_before.files
    /\ dl_before.files = NoFiles => corpus_fs.files = NoFiles
    /\ ~dl_before.exists => corpus_fs.files = NoFiles

\* C16 witness: the fetch failed on a corpus directory that was not there;
\* the directory has been made and is empty.
C16_Witness ==
  /\ dl_outcome \in {"HTTPError", "URLError"}
  /\ ~dl_before.exists
  /\ corpus_fs.exists
  /\ corpus_fs.files = NoFiles

\* The outcomes of a fuzz() that has ended.
OutcomeNoCrash == FuzzReturnedNull
OutcomeCrash ==
  /\ fuzz_result.kind = "return"
  /\ fuzz_result.test_case # None
  /\ fuzz_result.err_str # None
OutcomeError == fuzz_result.kind = "raise" /\ fuzz_result.exc # ""

\* Exactly one of the three outcomes holds.
OneOutcome ==
  Cardinality({o \in {"nocrash", "crash", "error"} :
                 \/ o = "nocrash" /\ OutcomeNoCrash
                 \/ o = "crash" /\ OutcomeCrash
                 \/ o = "error" /\ OutcomeError}) = 1

\* C17: if communicate() ends and every trial returns, a fuzz() that has
\* begun comes to its end, and a fuzz() that has ended has exactly one of
\* the outcomes no crash, confirmed crash, error.
C17_FuzzEndsWithOneOutcome ==
  /\ (pc # "idle") ~> (pc = "idle" /\ OneOutcome)
  /\ []((pc = "idle" /\ fuzz_calls >= 1) => OneOutcome)

\* C17 witness: a second fuzz() has ended after all of its trials, with the
\* outcome no crash.
C17_Witness ==
  /\ pc = "idle"
  /\ fuzz_calls = 2
  /\ fuzz_result.line = 113
  /\ OutcomeNoCrash
  /\ ~OutcomeCrash
  /\ ~OutcomeError

\* C18: no step of fuzz(), of the is_reproducible and get_test_case it
\* calls, or of download_latest_corpus changes target_name, target_path,
\* duration, out_dir or project_name.
C18_AttributesNeverChange ==
  [][/\ target_name' = target_name
     /\ target_path' = target_path
     /\ duration' = duration
     /\ out_dir' = out_dir
     /\ project_name' = project_name]_vars

\* C18 witness: after a download, a timed-out fuzz() and a fuzz() that
\* extracted a test case and ran its trials, the attributes are those the
\* constructor set.
C18_Witness ==
  /\ pc = "idle"
  /\ dl_calls >= 1
  /\ fuzz_calls = 2
  /\ proc = "exited"
  /\ extracted
  /\ confirm.called
  /\ confirm.trials >= 1
  /\ <<target_path, out_dir>> \in TargetAndOutDirs
  /\ target_name = Basename(target_path)
  /\ duration \in Durations
  /\ project_name \in ProjectNames

\* C19: a path get_test_case returns lies inside out_dir: it begins with
\* out_dir and goes on below it, whatever the matched path is.
C19_TestCaseInsideOutDir ==
  (gtc_text # None /\ gtc_result # None) =>
    LET n == Len(out_dir)
    IN /\ Len(gtc_result) > n
       /\ SubSeq(gtc_result, 1, n) = out_dir
       /\ (n > 0 /\ out_dir[n] # "/") => gtc_result[n + 1] = "/"
       /\ IsAbs(gtc_result) => IsAbs(out_dir)

====
